---- MODULE Spec2Model ----
(***************************************************************************)
(* The LocalLinearTrend state space model of                               *)
(* examples/python/statespace_local_linear_trend.py: the matrices that     *)
(* __init__ sets, the parameter transforms, start_params and update.       *)
(*                                                                         *)
(* Every number the class handles is a numpy float64.  The model keeps the *)
(* arithmetic of binary floating point (round to nearest, ties to even,    *)
(* gradual underflow, overflow to infinity, nan) and shrinks the format:   *)
(* Precision bits of significand and ExpRange binades instead of 53 and    *)
(* 2045.  A finite float is held as the integer number of units it is,     *)
(* the unit being the smallest subnormal; 1.0 is One units.                *)
(*                                                                         *)
(* Also simulate_seasonal_term of examples/python/statespace_seasonal.py,  *)
(* one call of it from its arguments to the returned samples; ewma of      *)
(* examples/python/recursive_ls.py, one call of it; and the ARMA(p,q)      *)
(* model selection loop of examples/python/statespace_sarimax_internet.py. *)
(***************************************************************************)
EXTENDS Integers, Sequences, FiniteSets

\* ------------------------------------------------------------- bounds
Precision == 3
ExpRange == 4
MaxObs == 3
MaxChain == 2

\* ------------------------------------------------- floating point format
Bias == ExpRange \div 2
One == 2^(Precision - 1 + Bias)
MaxFinite == (2^Precision - 1) * 2^ExpRange
Huge == 2^(Precision + ExpRange)
PosInf == Huge
NegInf == 0 - Huge
NaN == Huge + 1

Magnitudes == { m * 2^j : m \in 0..(2^Precision - 1), j \in 0..ExpRange }
Finite == Magnitudes \cup { 0 - f : f \in Magnitudes }
Floats == Finite \cup {PosInf, NegInf, NaN}

Abs(x) == IF x < 0 THEN 0 - x ELSE x
Sign(x) == IF x < 0 THEN 0 - 1 ELSE 1

\* The significand of a magnitude: itself in the lowest binade and below.
Significand(f) ==
    IF f < 2^Precision THEN f
    ELSE CHOOSE m \in 2^(Precision - 1)..(2^Precision - 1) :
             \E j \in 1..(ExpRange + 1) : f = m * 2^j

\* The values a result rounds to.  Huge, the infinity, stands for the first
\* value past MaxFinite.
Grid == Magnitudes \cup {Huge}

\* Round to nearest, ties to even: of the neighbours lo <= x < hi on the grid
\* the one nearer to x, side being the sign of x minus their midpoint.
NearestEven(lo, hi, side) ==
    IF side < 0 THEN lo
    ELSE IF side > 0 THEN hi
    ELSE IF Significand(lo) % 2 = 0 THEN lo ELSE hi

\* num / den units, num >= 0, den > 0.  The binade j of the value gives the
\* spacing 2^j of the grid around it.
RoundRatio(num, den) ==
    IF num >= Huge * den THEN Huge
    ELSE LET j == CHOOSE k \in 0..ExpRange :
                      /\ num < 2^(Precision + k) * den
                      /\ k = 0 \/ num >= 2^(Precision + k - 1) * den
             step == 2^j
             lo == (num \div (step * den)) * step
             hi == lo + step
         IN  NearestEven(lo, hi, 2 * num - (lo + hi) * den)

\* The square root of n units squared, n >= 0.
RoundRoot(n) ==
    IF n >= Huge * Huge THEN Huge
    ELSE LET j == CHOOSE k \in 0..ExpRange :
                      /\ n < 2^(Precision + k) * 2^(Precision + k)
                      /\ k = 0 \/ n >= 2^(Precision + k - 1) * 2^(Precision + k - 1)
             step == 2^j
             m == CHOOSE k \in 0..(2^Precision - 1) :
                      /\ (k * step) * (k * step) <= n
                      /\ ((k + 1) * step) * ((k + 1) * step) > n
             lo == m * step
             hi == lo + step
         IN  NearestEven(lo, hi, 4 * n - (lo + hi) * (lo + hi))

\* Python's comparisons: every comparison with nan is False.
Ge(x, y) == x # NaN /\ y # NaN /\ x >= y

Signed(s, mag) == IF s < 0 THEN 0 - mag ELSE mag

fmul(a, b) ==
    IF a = NaN \/ b = NaN THEN NaN
    ELSE IF Abs(a) = Huge \/ Abs(b) = Huge
         THEN IF a = 0 \/ b = 0 THEN NaN ELSE Signed(Sign(a) * Sign(b), Huge)
    ELSE Signed(Sign(a) * Sign(b), RoundRatio(Abs(a) * Abs(b), One))

fadd(a, b) ==
    IF a = NaN \/ b = NaN THEN NaN
    ELSE IF Abs(a) = Huge /\ Abs(b) = Huge THEN (IF a = b THEN a ELSE NaN)
    ELSE IF Abs(a) = Huge THEN a
    ELSE IF Abs(b) = Huge THEN b
    ELSE Signed(a + b, RoundRatio(Abs(a + b), 1))

fsub(a, b) == fadd(a, IF b = NaN THEN NaN ELSE 0 - b)

\* a / n for a count n >= 1 (numpy's true_divide by the number of items).
fdivcount(a, n) ==
    IF a = NaN THEN NaN
    ELSE IF Abs(a) = Huge THEN a
    ELSE Signed(a, RoundRatio(Abs(a), n))

\* x ** 2 of a float64 (numpy squares: x * x).
SquareOf[x \in Floats] == fmul(x, x)

\* x ** 0.5 of a float64 (numpy takes the square root; nan below zero).
RootOf[x \in Floats] ==
    IF x = NaN \/ x < 0 THEN NaN
    ELSE IF x = PosInf THEN PosInf
    ELSE RoundRoot(x * One)

\* ------------------------------------------------------- numpy arrays
\* A one-dimensional array is a function on 0..n-1, as numpy indexes it.
Size(a) == Cardinality(DOMAIN a)
Vec1(a) == [i \in 0..0 |-> a]
Vec3(a, b, c) == [i \in 0..2 |-> IF i = 0 THEN a ELSE IF i = 1 THEN b ELSE c]
Empty == [i \in {} |-> 0]
Tail1(a) == [i \in 0..(Size(a) - 2) |-> a[i + 1]]
ArraysOver(S, n) == [0..(n - 1) -> S]

Zeros(r, c) == [i \in 0..(r - 1) |-> [j \in 0..(c - 1) |-> 0]]
\* np.array([1, 0]) and np.array([[1, 1], [0, 1]]) stored as float64.
Row2(a, b) == [j \in 0..1 |-> IF j = 0 THEN a ELSE b]
Mat1x2(a, b) == [i \in 0..0 |-> Row2(a, b)]
Mat2x2(a, b, c, d) == [i \in 0..1 |-> IF i = 0 THEN Row2(a, b) ELSE Row2(c, d)]
\* np.eye(n)
eye(n) == [i \in 0..(n - 1) |-> [j \in 0..(n - 1) |-> IF i = j THEN One ELSE 0]]
\* np.diag_indices(n): the pair (array([0..n-1]), array([0..n-1]))
diag_indices(n) == << [k \in 0..(n - 1) |-> k], [k \in 0..(n - 1) |-> k] >>

\* ssm[name, rows, cols] = vals: cell (rows[k], cols[k]) takes vals[k]; the
\* other cells keep their value.
SetCells(M, rows, cols, vals) ==
    [i \in DOMAIN M |-> [j \in DOMAIN M[i] |->
        IF \E k \in DOMAIN rows : rows[k] = i /\ cols[k] = j
        THEN vals[CHOOSE k \in DOMAIN rows : rows[k] = i /\ cols[k] = j]
        ELSE M[i][j]]]

\* np.sum of a one-dimensional array of fewer than 8 items: left to right.
RECURSIVE SumTo(_, _)
SumTo(a, k) == IF k = 0 THEN a[0] ELSE fadd(SumTo(a, k - 1), a[k])
np_sum(a) == IF Size(a) = 0 THEN 0 ELSE SumTo(a, Size(a) - 1)

\* np.std(a) with numpy's defaults: the mean, the deviations from it, their
\* squares, the sum of those over len(a) - ddof with ddof = 0, the root.
ddof == 0
np_mean(a) == fdivcount(np_sum(a), Size(a))
Deviations(a) ==
    LET arrmean == np_mean(a) IN [i \in DOMAIN a |-> fsub(a[i], arrmean)]
SquaredDeviations(a) ==
    LET x == Deviations(a) IN [i \in DOMAIN a |-> fmul(x[i], x[i])]
np_var(a, d) == fdivcount(np_sum(SquaredDeviations(a)), Size(a) - d)
\* Mutant of np_std: the sample standard deviation, ddof = 1.
np_std_sample(a) == RootOf[np_var(a, 1)]
np_std(a) == RootOf[np_var(a, ddof)]

\* ------------------------------------------------- LocalLinearTrend
VARIABLES
    endog,               \* the observed series, self.endog
    k_states, k_posdef, initialization, loglikelihood_burn,
    state_cov_idx,       \* self._state_cov_idx without the matrix name
    design, transition, selection, obs_cov, state_cov,   \* self.ssm[...]
    call,                \* the last method call: [op, arg, ret]
    repeated,            \* the last call was update with the argument of the
                         \* update call right before it
    replaced,            \* the last call was update with another argument
                         \* than the update call right before it
    given,               \* the vector a chain of transforms starts from
    chain                \* the transforms applied to it so far

\* simulate_seasonal_term: the arguments, the generator and the locals.
VARIABLES
    periodicity, total_cycles, noise_std,
    harmonics_arg,       \* the harmonics argument: None or (h)
    random_state,        \* the stream of standard normal draws the seed fixes
    draws,               \* how many of them have been drawn
    duration, harmonics, lambda_p, gamma_jt, gamma_star_jt,
    total_timesteps, series, t, wanted_series,
    pc                   \* "idle", "called", "loop", "returned" or the name
                         \* of the exception raised

arguments == <<periodicity, total_cycles, noise_std, harmonics_arg, random_state>>
locals == <<duration, harmonics, lambda_p, gamma_jt, gamma_star_jt,
            total_timesteps, series, t, wanted_series>>
seasonal == <<arguments, draws, locals, pc>>

\* No call of simulate_seasonal_term is under way.
SeasonalIdle ==
    /\ periodicity = 1 /\ total_cycles = 0 /\ noise_std = 0
    /\ harmonics_arg = << >> /\ random_state = Empty /\ draws = 0
    /\ duration = 0 /\ harmonics = 0 /\ lambda_p = 0
    /\ gamma_jt = Empty /\ gamma_star_jt = Empty
    /\ total_timesteps = 0 /\ series = Empty /\ t = 0 /\ wanted_series = Empty
    /\ pc = "idle"

\* ewma(series, beta, n_window): the arguments and the locals.
VARIABLES
    ewma_series,         \* the pandas Series: [values, index]
    beta, n_window,
    nobs, scalar, weights, ma,
    ewma_t,              \* the loop variable t
    ewma_result,         \* the Series returned: [values, index]
    ewma_pc              \* "idle", "called", "loop", "returned" or the name
                         \* of the exception raised

recursive_ls == <<ewma_series, beta, n_window, nobs, scalar, weights, ma,
                  ewma_t, ewma_result, ewma_pc>>

\* No call of ewma is under way.
EwmaIdle ==
    /\ ewma_series = [values |-> Empty, index |-> Empty]
    /\ beta = 0 /\ n_window = 0
    /\ nobs = 0 /\ scalar = 0 /\ weights = Empty /\ ma = << >> /\ ewma_t = 0
    /\ ewma_result = [values |-> Empty, index |-> Empty]
    /\ ewma_pc = "idle"

\* The model selection loop: the two tables, the loop variables p and q, the
\* try block the script is at, and the models whose fit raises.
VARIABLES
    aic_full, aic_miss,
    order_p, order_q,
    stage,               \* "idle", "full", "miss" or "done"
    failing,             \* the (dataset, p, q) whose mod.fit raises
    visits               \* the (p, q) the loop body has run for, in order

sarimax == <<aic_full, aic_miss, order_p, order_q, stage, failing, visits>>

\* The script has not reached the loop.
AicIdle ==
    /\ aic_full = Empty /\ aic_miss = Empty
    /\ order_p = 0 /\ order_q = 0
    /\ stage = "idle" /\ failing = {} /\ visits = << >>

fixed == <<endog, k_states, k_posdef, initialization, loglikelihood_burn, state_cov_idx>>
structural == <<design, transition, selection>>
covariances == <<obs_cov, state_cov>>
model == <<fixed, structural, covariances, call, repeated, replaced, given, chain>>
vars == <<model, seasonal, recursive_ls, sarimax>>

\* The number of parameters: [np.std(self.endog)] * 3.
k_params == 3

\* Mutant of param_names: the two state variances named in the other order.
param_names_trend_first == <<"sigma2.measurement", "sigma2.trend", "sigma2.level">>

param_names == <<"sigma2.measurement", "sigma2.level", "sigma2.trend">>

\* Mutant of start_params: the vector of zeros.
start_params_zeros == [i \in 0..(k_params - 1) |-> 0]

start_params == [i \in 0..(k_params - 1) |-> np_std(endog)]

\* Mutants of transform_params: the transform left out; a square that keeps
\* the sign; u * 2 for u ** 2.
transform_params_identity(unconstrained) == unconstrained
transform_params_signed(unconstrained) ==
    [i \in DOMAIN unconstrained |->
        fmul(unconstrained[i],
             IF unconstrained[i] = NaN THEN NaN ELSE Abs(unconstrained[i]))]
transform_params_double(unconstrained) ==
    [i \in DOMAIN unconstrained |-> fadd(unconstrained[i], unconstrained[i])]

transform_params(unconstrained) ==
    [i \in DOMAIN unconstrained |-> SquareOf[unconstrained[i]]]

\* Mutant of untransform_params: constrained * 0.5 for constrained ** 0.5.
untransform_params_half(constrained) ==
    [i \in DOMAIN constrained |-> fmul(constrained[i], One \div 2)]

untransform_params(constrained) ==
    [i \in DOMAIN constrained |-> RootOf[constrained[i]]]

\* MLEModel.update with transformed=True: hands the parameters back as given.
MLEModel_update(params) == params

\* Mutants of __init__: loglikelihood_burn left at the base class's default;
\* the identity written into state_cov as well as into selection.
Construct_default_burn(e) ==
    /\ endog = e
    /\ k_states = 2
    /\ k_posdef = 2
    /\ initialization = "approximate_diffuse"
    /\ loglikelihood_burn = 0
    /\ design = Mat1x2(One, 0)
    /\ transition = Mat2x2(One, One, 0, One)
    /\ selection = eye(2)
    /\ obs_cov = Zeros(1, 1)
    /\ state_cov = Zeros(2, 2)
    /\ state_cov_idx = diag_indices(2)
    /\ call = [op |-> "__init__", arg |-> e, ret |-> Empty]
    /\ repeated = FALSE
    /\ replaced = FALSE
    /\ chain = << >>
Construct_state_cov_identity(e) ==
    /\ endog = e
    /\ k_states = 2
    /\ k_posdef = 2
    /\ initialization = "approximate_diffuse"
    /\ loglikelihood_burn = 2
    /\ design = Mat1x2(One, 0)
    /\ transition = Mat2x2(One, One, 0, One)
    /\ selection = eye(2)
    /\ obs_cov = Zeros(1, 1)
    /\ state_cov = eye(2)
    /\ state_cov_idx = diag_indices(2)
    /\ call = [op |-> "__init__", arg |-> e, ret |-> Empty]
    /\ repeated = FALSE
    /\ replaced = FALSE
    /\ chain = << >>

\* __init__(endog)
Construct(e) ==
    /\ endog = e
    /\ k_states = 2
    /\ k_posdef = 2
    /\ initialization = "approximate_diffuse"
    /\ loglikelihood_burn = 2
    /\ design = Mat1x2(One, 0)
    /\ transition = Mat2x2(One, One, 0, One)
    /\ selection = eye(2)
    /\ obs_cov = Zeros(1, 1)
    /\ state_cov = Zeros(2, 2)
    /\ state_cov_idx = diag_indices(2)
    /\ call = [op |-> "__init__", arg |-> e, ret |-> Empty]
    /\ repeated = FALSE
    /\ replaced = FALSE
    /\ chain = << >>

\* Mutants of the writes of update: += for =; a negative variance clamped to
\* zero; params[:2] for params[1:].
obs_cov_after_clamped(params) ==
    SetCells(obs_cov, Vec1(0), Vec1(0),
             Vec1(IF Ge(MLEModel_update(params)[0], 0)
                  THEN MLEModel_update(params)[0] ELSE 0))
obs_cov_after_accumulate(params) ==
    SetCells(obs_cov, Vec1(0), Vec1(0),
             Vec1(fadd(obs_cov[0][0], MLEModel_update(params)[0])))
state_cov_after_head(params) ==
    SetCells(state_cov, state_cov_idx[1], state_cov_idx[2],
             [i \in 0..1 |-> MLEModel_update(params)[i]])

\* The writes of update(params).
obs_cov_after(params) ==
    SetCells(obs_cov, Vec1(0), Vec1(0), Vec1(MLEModel_update(params)[0]))
state_cov_after(params) ==
    SetCells(state_cov, state_cov_idx[1], state_cov_idx[2],
             Tail1(MLEModel_update(params)))

\* Mutants of update: a vector with a zero variance is rejected; the cached
\* index names the transition matrix.
update_rejecting_zero(params) ==
    /\ \A i \in DOMAIN params : params[i] # 0
    /\ obs_cov' = obs_cov_after(params)
    /\ state_cov' = state_cov_after(params)
    /\ UNCHANGED <<seasonal, recursive_ls, sarimax, fixed, structural, given, chain>>
update_into_transition(params) ==
    /\ obs_cov' = obs_cov_after(params)
    /\ transition' = SetCells(transition, state_cov_idx[1], state_cov_idx[2],
                              Tail1(MLEModel_update(params)))
    /\ UNCHANGED <<seasonal, recursive_ls, sarimax, fixed, design, selection, state_cov, given, chain>>

update(params) ==
    /\ obs_cov' = obs_cov_after(params)
    /\ state_cov' = state_cov_after(params)
    /\ UNCHANGED <<seasonal, recursive_ls, sarimax, fixed, structural, given, chain>>

\* ------------------------------------------------------------ inputs
EndogValues == {0, One, 2 * One}
Series == UNION { ArraysOver(EndogValues, n) : n \in 1..MaxObs }
ExampleSeries == [i \in 0..1 |-> IF i = 0 THEN One ELSE 2 * One]

\* Parameter vectors handed to update and proposed by the optimizer in Spec.
ParamValues == {0 - One, 0, 2 * One}
ParamVectors == ArraysOver(ParamValues, k_params)

\* Vectors with one component ranging over every finite float and the others
\* over ProbeValues; the transforms work component by component.
ProbeValues == {0 - One, 2 * One}
OneFree(n) ==
    { [j \in 0..(n - 1) |-> IF j = i THEN x ELSE b[j]] :
        i \in 0..(n - 1), x \in Finite, b \in ArraysOver(ProbeValues, n) }
Vectors == UNION { OneFree(n) : n \in 1..k_params }
Vectors3 == OneFree(k_params)

\* ------------------------------------------------------------ actions
\* update(p), p taken as already constrained.
Update(p) ==
    /\ update(p)
    /\ call' = [op |-> "update", arg |-> p, ret |-> Empty]
    /\ repeated' = (call.op = "update" /\ call.arg = p)
    /\ replaced' = (call.op = "update" /\ call.arg # p)

\* One optimizer proposal u: update(transform_params(u)).
Propose(u) ==
    /\ update(transform_params(u))
    /\ call' = [op |-> "propose", arg |-> u, ret |-> transform_params(u)]
    /\ repeated' = FALSE
    /\ replaced' = FALSE

StartParams ==
    /\ call' = [op |-> "start_params", arg |-> Empty, ret |-> start_params]
    /\ repeated' = FALSE
    /\ replaced' = FALSE
    /\ UNCHANGED <<seasonal, recursive_ls, sarimax, fixed, structural, covariances, given, chain>>

ParamNames ==
    /\ call' = [op |-> "param_names", arg |-> Empty, ret |-> param_names]
    /\ repeated' = FALSE
    /\ replaced' = FALSE
    /\ UNCHANGED <<seasonal, recursive_ls, sarimax, fixed, structural, covariances, given, chain>>

Init == SeasonalIdle /\ EwmaIdle /\ AicIdle /\ given = Empty /\ \E e \in Series : Construct(e)

Next ==
    \/ \E p \in ParamVectors : Update(p)
    \/ \E u \in ParamVectors : Propose(u)
    \/ StartParams
    \/ ParamNames

Spec == Init /\ [][Next]_vars

\* The optimizer alone: every update is a transformed proposal.
InitFit == SeasonalIdle /\ EwmaIdle /\ AicIdle /\ given = Empty /\ Construct(ExampleSeries)
NextFit == \E u \in Vectors3 : Propose(u)
SpecFit == InitFit /\ [][NextFit]_vars

\* The two transforms as pure functions, applied to a given vector and then
\* to each other's results, MaxChain calls at most.
Current == IF chain = << >> THEN given ELSE call.ret

TransformParams ==
    /\ Len(chain) < MaxChain
    /\ call' = [op |-> "transform_params", arg |-> Current,
                ret |-> transform_params(Current)]
    /\ chain' = Append(chain, "transform_params")
    /\ UNCHANGED <<seasonal, recursive_ls, sarimax, fixed, structural, covariances, repeated, replaced, given>>

UntransformParams ==
    /\ Len(chain) < MaxChain
    /\ call' = [op |-> "untransform_params", arg |-> Current,
                ret |-> untransform_params(Current)]
    /\ chain' = Append(chain, "untransform_params")
    /\ UNCHANGED <<seasonal, recursive_ls, sarimax, fixed, structural, covariances, repeated, replaced, given>>

InitParams == SeasonalIdle /\ EwmaIdle /\ AicIdle /\ given \in Vectors /\ Construct(ExampleSeries)
NextParams == TransformParams \/ UntransformParams
SpecParams == InitParams /\ [][NextParams]_vars

\* ------------------------------------------- simulate_seasonal_term
MaxPeriodicity == 2
MaxHarmonics == 2

\* -a of a float64.
fneg(a) == IF a = NaN THEN NaN ELSE 0 - a

\* np.pi: the float nearest to pi (355/113 is pi to seven digits).
np_pi == RoundRatio(355 * One, 113)

\* np.cos and np.sin: the cosine in fixed point (Scale to 1.0), the angle
\* reduced to the first quadrant, rounded to a float.
Scale == 2^12
PiScaled == (355 * Scale) \div 113
\* 1 - x2/((2k-1)(2k)) * (1 - x2/((2k+1)(2k+2)) * (...)), x2 the squared angle.
RECURSIVE CosSeries(_, _)
CosSeries(x2, k) ==
    IF k > 6 THEN Scale
    ELSE Scale - (x2 * CosSeries(x2, k + 1)) \div ((2 * k - 1) * (2 * k) * Scale)
FixedCos(xs) ==
    LET r == xs % (2 * PiScaled)
        a == IF r > PiScaled THEN 2 * PiScaled - r ELSE r
        b == PiScaled - a
    IN  IF 2 * a > PiScaled
        THEN 0 - CosSeries((b * b) \div Scale, 1)
        ELSE CosSeries((a * a) \div Scale, 1)
np_cos(x) ==
    IF x \notin Finite THEN NaN
    ELSE LET v == FixedCos((Abs(x) * Scale) \div One)
         IN  Signed(v, RoundRatio(Abs(v) * One, Scale))
np_sin(x) ==
    IF x \notin Finite THEN NaN
    ELSE LET v == FixedCos(Abs(Sign(x) * ((Abs(x) * Scale) \div One)
                               - PiScaled \div 2))
         IN  Signed(v, RoundRatio(Abs(v) * One, Scale))

\* The k-th draw (from 0) of np.random.randn since the seed was set.
randn(k) == random_state[k % Size(random_state)]

None == << >>
\* Mutant of LastItems: series[:n], the first n items.
LastItems_first(a, n) ==
    [i \in 0..((IF n > Size(a) THEN Size(a) ELSE n) - 1) |-> a[i]]
\* series[-n:]: the last n items; all of them when n is 0.
LastItems(a, n) ==
    LET start == IF n = 0 \/ n > Size(a) THEN 0 ELSE Size(a) - n
    IN  [i \in 0..(Size(a) - start - 1) |-> a[start + i]]

\* The loop body for harmonic j (from 1): cos_j, sin_j and the two new values,
\* the noise being draws number draws + 2(j-1) and the one after it.
cos_j(j) == np_cos(fmul(lambda_p, j * One))
sin_j(j) == np_sin(fmul(lambda_p, j * One))
gamma_jtp1 ==
    [i \in 0..(harmonics - 1) |->
        fadd(fadd(fmul(gamma_jt[i], cos_j(i + 1)),
                  fmul(gamma_star_jt[i], sin_j(i + 1))),
             fmul(noise_std, randn(draws + 2 * i)))]
\* Mutant of gamma_star_jtp1: gamma_jt already overwritten by its new value.
gamma_star_jtp1_in_place ==
    [i \in 0..(harmonics - 1) |->
        fadd(fadd(fmul(fneg(gamma_jtp1[i]), sin_j(i + 1)),
                  fmul(gamma_star_jt[i], cos_j(i + 1))),
             fmul(noise_std, randn(draws + 2 * i + 1)))]
gamma_star_jtp1 ==
    [i \in 0..(harmonics - 1) |->
        fadd(fadd(fmul(fneg(gamma_jt[i]), sin_j(i + 1)),
                  fmul(gamma_star_jt[i], cos_j(i + 1))),
             fmul(noise_std, randn(draws + 2 * i + 1)))]

\* Mutant of Setup: the assertion left out, int() truncating the duration.
Setup_without_assert ==
    /\ pc = "called"
    /\ LET product == fmul(periodicity * One, total_cycles)
           d == product \div One
           h == IF harmonics_arg # None /\ harmonics_arg[1] # 0
                THEN harmonics_arg[1] ELSE periodicity \div 2
       IN  IF product \notin Finite
           THEN /\ pc' = "OverflowError"
                /\ UNCHANGED <<draws, locals>>
           ELSE /\ duration' = d
                /\ harmonics' = h
                /\ lambda_p' = fdivcount(fmul(2 * One, np_pi), periodicity)
                /\ gamma_jt' = [i \in 0..(h - 1) |-> fmul(noise_std, randn(i))]
                /\ gamma_star_jt' =
                       [i \in 0..(h - 1) |-> fmul(noise_std, randn(h + i))]
                /\ draws' = 2 * h
                /\ total_timesteps' = 100 * d
                /\ series' = [i \in 0..(100 * d - 1) |-> 0]
                /\ t' = 0
                /\ pc' = "loop"
                /\ UNCHANGED wanted_series
    /\ UNCHANGED <<model, recursive_ls, sarimax, arguments>>

\* Lines 53-64: the duration and its assertion (int() of an infinite product
\* raises OverflowError before the comparison), the default of harmonics,
\* lambda_p, the initial draws and the zeroed series.
Setup ==
    /\ pc = "called"
    /\ LET product == fmul(periodicity * One, total_cycles)
           d == product \div One
           h == IF harmonics_arg # None /\ harmonics_arg[1] # 0
                THEN harmonics_arg[1] ELSE periodicity \div 2
       IN  IF product \notin Finite \/ product % One # 0
           THEN /\ pc' = (IF product \notin Finite THEN "OverflowError"
                                                   ELSE "AssertionError")
                /\ UNCHANGED <<draws, locals>>
           ELSE /\ duration' = d
                /\ harmonics' = h
                /\ lambda_p' = fdivcount(fmul(2 * One, np_pi), periodicity)
                /\ gamma_jt' = [i \in 0..(h - 1) |-> fmul(noise_std, randn(i))]
                /\ gamma_star_jt' =
                       [i \in 0..(h - 1) |-> fmul(noise_std, randn(h + i))]
                /\ draws' = 2 * h
                /\ total_timesteps' = 100 * d
                /\ series' = [i \in 0..(100 * d - 1) |-> 0]
                /\ t' = 0
                /\ pc' = "loop"
                /\ UNCHANGED wanted_series
    /\ UNCHANGED <<model, recursive_ls, sarimax, arguments>>

\* Lines 65-79: one time step.
Iterate ==
    /\ pc = "loop"
    /\ t < total_timesteps
    /\ gamma_jt' = gamma_jtp1
    /\ gamma_star_jt' = gamma_star_jtp1
    /\ series' = [series EXCEPT ![t] = np_sum(gamma_jtp1)]
    /\ draws' = draws + 2 * harmonics
    /\ t' = t + 1
    /\ UNCHANGED <<model, recursive_ls, sarimax, arguments, duration, harmonics, lambda_p,
                   total_timesteps, wanted_series, pc>>

\* Lines 80-82: the loop is over; the burn in is discarded.
Return ==
    /\ pc = "loop"
    /\ t = total_timesteps
    /\ wanted_series' = LastItems(series, duration)
    /\ pc' = "returned"
    /\ UNCHANGED <<model, recursive_ls, sarimax, arguments, draws, duration, harmonics, lambda_p,
                   gamma_jt, gamma_star_jt, total_timesteps, series, t>>

Periodicities == 1..MaxPeriodicity
CycleCounts == {0, One \div 2, One, One + One \div 2}
NoiseStds == {One \div 2}
HarmonicsArgs == {None} \cup { <<h>> : h \in 0..MaxHarmonics }
RandomStates == ArraysOver({0 - One, One \div 2}, 3)

InitSeasonal ==
    /\ EwmaIdle /\ AicIdle
    /\ given = Empty /\ Construct(ExampleSeries)
    /\ periodicity \in Periodicities
    /\ total_cycles \in CycleCounts
    /\ noise_std \in NoiseStds
    /\ harmonics_arg \in HarmonicsArgs
    /\ random_state \in RandomStates
    /\ draws = 0
    /\ duration = 0 /\ harmonics = 0 /\ lambda_p = 0
    /\ gamma_jt = Empty /\ gamma_star_jt = Empty
    /\ total_timesteps = 0 /\ series = Empty /\ t = 0 /\ wanted_series = Empty
    /\ pc = "called"
NextSeasonal == Setup \/ Iterate \/ Return
SpecSeasonal == InitSeasonal /\ [][NextSeasonal]_vars

\* ------------------------------------------------------------- ewma
MaxNobs == 5
MaxWindow == 2

\* a / b of two finite floats, b not 0.
fdiv(a, b) == Signed(Sign(a) * Sign(b), RoundRatio(Abs(a) * One, Abs(b)))

RECURSIVE IntPow(_, _)
IntPow(b, e) == IF e = 0 THEN 1 ELSE b * IntPow(b, e - 1)
\* b ** e of a finite float and an int e >= 0: the float nearest to the power.
fpow(b, e) ==
    IF e = 0 THEN One
    ELSE Signed(IF e % 2 = 1 THEN b ELSE 1,
                RoundRatio(IntPow(Abs(b), e), IntPow(One, e - 1)))

\* np.arange(n, 0, -1): n, n - 1, ..., 1
arange_down(n) == [i \in 0..(n - 1) |-> n - i]
\* a[::-1]
Reversed(a) == [i \in DOMAIN a |-> a[Size(a) - 1 - i]]
\* np.r_[a, x, b]
r_(a, x, b) ==
    [i \in 0..(Size(a) + Size(b)) |->
        IF i < Size(a) THEN a[i]
        ELSE IF i = Size(a) THEN x
        ELSE b[i - Size(a) - 1]]
\* a[start:stop] as Python slices: a negative bound counts from the end, and
\* both are clipped to the array.
SliceBound(a, b) ==
    IF b < 0 THEN (IF b + Size(a) < 0 THEN 0 ELSE b + Size(a))
    ELSE IF b > Size(a) THEN Size(a) ELSE b
iloc(a, start, stop) ==
    LET lo == SliceBound(a, start)
        hi == SliceBound(a, stop)
    IN  [i \in 0..(hi - lo - 1) |-> a[lo + i]]

\* Mutant of ewma_weights: the second half not reversed, beta**k twice.
ewma_weights_unreversed(b, n) ==
    LET k == arange_down(n)
        powers == [i \in DOMAIN k |-> fpow(b, k[i])]
    IN  r_(powers, One, powers)
\* k and weights of ewma.
ewma_weights(b, n) ==
    LET k == arange_down(n)
        powers == [i \in DOMAIN k |-> fpow(b, k[i])]
        mirrored == [i \in DOMAIN k |-> fpow(b, Reversed(k)[i])]
    IN  r_(powers, One, mirrored)

\* Lines 115-119: nobs, scalar, the empty list, the weights.
EwmaBegin ==
    /\ ewma_pc = "called"
    /\ IF fadd(One, beta) = 0
       THEN /\ ewma_pc' = "ZeroDivisionError"
            /\ UNCHANGED <<nobs, scalar, weights, ma, ewma_t>>
       ELSE /\ nobs' = Size(ewma_series.values)
            /\ scalar' = fdiv(fsub(One, beta), fadd(One, beta))
            /\ ma' = << >>
            /\ weights' = ewma_weights(beta, n_window)
            /\ ewma_t' = n_window
            /\ ewma_pc' = "loop"
    /\ UNCHANGED <<model, seasonal, sarimax, ewma_series, beta, n_window, ewma_result>>

\* Lines 120-122: the body of the loop over range(n_window, nobs - n_window).
EwmaStep ==
    /\ ewma_pc = "loop"
    /\ ewma_t < nobs - n_window
    /\ LET window == iloc(ewma_series.values, ewma_t - n_window,
                          ewma_t + n_window + 1)
       IN  ma' = Append(ma, fmul(scalar,
                   np_sum([i \in DOMAIN weights |-> fmul(weights[i], window[i])])))
    /\ ewma_t' = ewma_t + 1
    /\ UNCHANGED <<model, seasonal, sarimax, ewma_series, beta, n_window,
                   nobs, scalar, weights, ewma_result, ewma_pc>>

\* Lines 123-124: pd.Series(ma, index=...), which raises ValueError when the
\* list and the index differ in length.
EwmaReturn ==
    /\ ewma_pc = "loop"
    /\ ewma_t >= nobs - n_window
    /\ LET index == iloc(ewma_series.index, n_window, 0 - n_window)
       IN  IF Len(ma) # Size(index)
           THEN /\ ewma_pc' = "ValueError"
                /\ UNCHANGED ewma_result
           ELSE /\ ewma_result' =
                      [values |-> [i \in 0..(Len(ma) - 1) |-> ma[i + 1]],
                       index |-> index]
                /\ ewma_pc' = "returned"
    /\ UNCHANGED <<model, seasonal, sarimax, ewma_series, beta, n_window,
                   nobs, scalar, weights, ma, ewma_t>>

EwmaValues == {0 - One, One, 2 * One}
\* The labels of a series of n observations.
Labels(n) == [i \in 0..(n - 1) |-> 10 * (i + 1)]
EwmaSeries ==
    UNION { { [values |-> v, index |-> Labels(n)] : v \in ArraysOver(EwmaValues, n) } :
            n \in 0..MaxNobs }
Betas == {One \div 2, One \div 2 + One \div 4}
Windows == 0..MaxWindow

InitEwma ==
    /\ SeasonalIdle /\ AicIdle
    /\ given = Empty /\ Construct(ExampleSeries)
    /\ ewma_series \in EwmaSeries
    /\ beta \in Betas
    /\ n_window \in Windows
    /\ nobs = 0 /\ scalar = 0 /\ weights = Empty /\ ma = << >> /\ ewma_t = 0
    /\ ewma_result = [values |-> Empty, index |-> Empty]
    /\ ewma_pc = "called"
NextEwma == EwmaBegin \/ EwmaStep \/ EwmaReturn
SpecEwma == InitEwma /\ [][NextEwma]_vars

\* ------------------------------------------- ARMA(p,q) model selection
\* range(6) and np.zeros((6, 6))
Orders == 6

\* res.aic of a fit that succeeds: some float that is neither 0 nor nan.
AicOf(data) == IF data = "dta_full" THEN One ELSE 2 * One
\* What the try block leaves in its cell: res.aic, or np.nan when mod.fit
\* raises.
Fitted(data, a, b) == IF <<data, a, b>> \in failing THEN NaN ELSE AicOf(data)

\* Mutant of NextPosition: the loops nested the other way round.
NextPosition_column_major(a, b) ==
    IF a + 1 < Orders THEN <<a + 1, b>> ELSE <<0, b + 1>>
\* The (p, q) after (a, b) in for p in range(6): for q in range(6).
NextPosition(a, b) ==
    IF b + 1 < Orders THEN <<a, b + 1>> ELSE <<a + 1, 0>>
LastPosition(a, b) == a + 1 = Orders /\ b + 1 = Orders

\* if p == 0 and q == 0: continue
Skip ==
    /\ stage = "full"
    /\ order_p = 0 /\ order_q = 0
    /\ order_p' = NextPosition(order_p, order_q)[1]
    /\ order_q' = NextPosition(order_p, order_q)[2]
    /\ UNCHANGED <<model, seasonal, recursive_ls, aic_full, aic_miss, stage,
                   failing, visits>>

\* Mutant of FitFull: no except clause, the exception of mod.fit ends the
\* script.
FitFull_unhandled ==
    /\ stage = "full"
    /\ ~ (order_p = 0 /\ order_q = 0)
    /\ IF <<"dta_full", order_p, order_q>> \in failing
       THEN stage' = "done" /\ UNCHANGED aic_full
       ELSE /\ aic_full' = [aic_full EXCEPT ![order_p][order_q] = AicOf("dta_full")]
            /\ stage' = "miss"
    /\ visits' = Append(visits, <<order_p, order_q>>)
    /\ UNCHANGED <<model, seasonal, recursive_ls, aic_miss, order_p, order_q,
                   failing>>
\* Lines 84-91: the model with no missing datapoints.
FitFull ==
    /\ stage = "full"
    /\ ~ (order_p = 0 /\ order_q = 0)
    /\ aic_full' = [aic_full EXCEPT
                       ![order_p][order_q] = Fitted("dta_full", order_p, order_q)]
    /\ stage' = "miss"
    /\ visits' = Append(visits, <<order_p, order_q>>)
    /\ UNCHANGED <<model, seasonal, recursive_ls, aic_miss, order_p, order_q,
                   failing>>

\* Lines 93-100: the model with missing datapoints, then the next (p, q).
FitMiss ==
    /\ stage = "miss"
    /\ aic_miss' = [aic_miss EXCEPT
                       ![order_p][order_q] = Fitted("dta_miss", order_p, order_q)]
    /\ IF LastPosition(order_p, order_q)
       THEN stage' = "done" /\ UNCHANGED <<order_p, order_q>>
       ELSE /\ stage' = "full"
            /\ order_p' = NextPosition(order_p, order_q)[1]
            /\ order_q' = NextPosition(order_p, order_q)[2]
    /\ UNCHANGED <<model, seasonal, recursive_ls, aic_full, failing, visits>>

\* The models that may fail to fit: the first, one in the middle, the last.
HardOrders == { <<0, 1>>, <<4, 2>>, <<Orders - 1, Orders - 1>> }
Candidates ==
    { <<data, o[1], o[2]>> : data \in {"dta_full", "dta_miss"}, o \in HardOrders }

InitAic ==
    /\ SeasonalIdle /\ EwmaIdle
    /\ given = Empty /\ Construct(ExampleSeries)
    /\ aic_full = Zeros(Orders, Orders)
    /\ aic_miss = Zeros(Orders, Orders)
    /\ order_p = 0 /\ order_q = 0
    /\ stage = "full"
    /\ failing \in SUBSET Candidates
    /\ visits = << >>
NextAic == Skip \/ FitFull \/ FitMiss
SpecAic == InitAic /\ [][NextAic]_vars
\* The script runs on until the loops are over.
SpecAicFair == SpecAic /\ WF_vars(NextAic)

\* =============================================================== claims

\* C1: after construction and after any number of optimizer proposals, each
\* squared by transform_params before update writes it, obs_cov[0,0] and both
\* diagonal cells of state_cov are >= 0.
C1_VariancesNonNegative ==
    /\ Ge(obs_cov[0][0], 0)
    /\ Ge(state_cov[0][0], 0)
    /\ Ge(state_cov[1][1], 0)
C1_Witness ==
    /\ call.op = "propose"
    /\ \A i \in 0..2 : call.arg[i] < 0
    /\ obs_cov[0][0] > 0 /\ state_cov[0][0] > 0 /\ state_cov[1][1] > 0

\* C2: after update(a, b, c), whatever preceded it, obs_cov[0,0] = a,
\* state_cov[0,0] = b, state_cov[1,1] = c and the off-diagonal cells of
\* state_cov are 0.
C2_UpdateWritesCells ==
    call.op = "update" =>
        /\ obs_cov[0][0] = call.arg[0]
        /\ state_cov[0][0] = call.arg[1]
        /\ state_cov[1][1] = call.arg[2]
        /\ state_cov[0][1] = 0
        /\ state_cov[1][0] = 0
C2_Witness ==
    /\ call.op = "update"
    /\ call.arg = Vec3(2 * One, 0 - One, 0)
    /\ state_cov[0][0] = 0 - One

\* C3: the design matrix is (1, 0), the transition matrix [[1,1],[0,1]] and
\* the selection matrix the identity after construction and after every call,
\* and no step changes anything but obs_cov[0,0] and the diagonal of state_cov.
C3_StructuralInvariant ==
    /\ design = Mat1x2(One, 0)
    /\ transition = Mat2x2(One, One, 0, One)
    /\ selection = Mat2x2(One, 0, 0, One)
C3_StructuralUnchanged ==
    /\ [](C3_StructuralInvariant)
    /\ [][/\ UNCHANGED <<fixed, structural>>
          /\ DOMAIN obs_cov' = {0} /\ DOMAIN obs_cov'[0] = {0}
          /\ state_cov'[0][1] = state_cov[0][1]
          /\ state_cov'[1][0] = state_cov[1][0]]_vars
C3_Witness ==
    /\ call.op = "update"
    /\ obs_cov[0][0] = 2 * One
    /\ state_cov[0][0] = 2 * One
    /\ state_cov[1][1] = 0 - One

\* ------------------------------------------- round trips of the transforms
MinNormal == 2^(Precision - 1)
\* x ** 2 neither overflows nor underflows (or x is 0).
SquareInRange(x) ==
    x \in Finite /\ (x = 0 \/ (SquareOf[x] >= MinNormal /\ SquareOf[x] <= MaxFinite))
\* No float lies strictly between a and b.
EqualOrAdjacent(a, b) ==
    /\ a # NaN /\ b # NaN
    /\ ~ \E f \in Floats \ {NaN} : (a < f /\ f < b) \/ (b < f /\ f < a)
\* b is a float nearest to the number num / One units, num >= 0.
NearestTo(b, num) ==
    /\ b \in Grid
    /\ \A f \in Grid : Abs(b * One - num) <= Abs(f * One - num)
\* The squares of the floats whose square neither overflows nor underflows.
Squares == { SquareOf[u] : u \in { x \in Finite : SquareInRange(x) } }
NonNegative(v) == \A i \in DOMAIN v : v[i] \in Magnitudes
AllFinite(v) == \A i \in DOMAIN v : v[i] \in Finite
Negated(v) == [i \in DOMAIN v |-> 0 - v[i]]
Magnitude(v) == [i \in DOMAIN v |-> Abs(v[i])]

\* C4, as stated: for every non-negative v,
\* transform_params(untransform_params(v)) = v.
C4_ConstrainAfterUnconstrainExact ==
    (chain = <<"untransform_params", "transform_params">> /\ NonNegative(given))
        => call.ret = given
\* C4, amended: the round trip returns, in each component, v[i] or a float
\* next to v[i], and v[i] itself when v[i] is the square of some float (a
\* square that neither overflows nor underflows).
C4_ConstrainAfterUnconstrain ==
    (chain = <<"untransform_params", "transform_params">> /\ NonNegative(given))
        => /\ DOMAIN call.ret = DOMAIN given
           /\ \A i \in DOMAIN given :
                /\ EqualOrAdjacent(call.ret[i], given[i])
                /\ given[i] \in Squares => call.ret[i] = given[i]
C4_Witness ==
    /\ chain = <<"untransform_params", "transform_params">>
    /\ NonNegative(given)
    /\ Size(given) = 3
    /\ given[0] \notin Squares /\ call.ret[0] # given[0]
    /\ given[1] \in Squares /\ given[1] > 0 /\ call.ret[1] = given[1]

\* C5, as stated: for every unconstrained u,
\* untransform_params(transform_params(u)) = |u|.
C5_UnconstrainAfterConstrainMagnitude ==
    chain = <<"transform_params", "untransform_params">>
        => call.ret = Magnitude(given)
\* C5, amended: the round trip returns |u[i]| in each component whose square
\* neither overflows nor underflows, and inf where the square overflows.
C5_UnconstrainAfterConstrain ==
    chain = <<"transform_params", "untransform_params">>
        => /\ DOMAIN call.ret = DOMAIN given
           /\ \A i \in DOMAIN given :
                /\ SquareInRange(given[i]) => call.ret[i] = Abs(given[i])
                /\ SquareOf[given[i]] = PosInf => call.ret[i] = PosInf
C5_Witness ==
    /\ chain = <<"transform_params", "untransform_params">>
    /\ Size(given) = 3
    /\ given[0] < 0 /\ SquareInRange(given[0]) /\ call.ret[0] = 0 - given[0]
    /\ given[0] \notin {0 - One, 0 - 2 * One}
    /\ given[1] < 0 /\ call.ret[1] = 0 - given[1]

\* C6: for every unconstrained u, of any sign in any component,
\* transform_params(u) has the length of u, its i-th component is u[i]
\* squared (the float nearest to the exact square; inf past the largest
\* float) and every component is >= 0.
C6_TransformSquares ==
    (call.op = "transform_params" /\ \A i \in DOMAIN call.arg : call.arg[i] # NaN)
        => /\ DOMAIN call.ret = DOMAIN call.arg
           /\ \A i \in DOMAIN call.arg :
                /\ Ge(call.ret[i], 0)
                /\ call.arg[i] \in Finite
                     => NearestTo(call.ret[i], call.arg[i] * call.arg[i])
                /\ call.arg[i] \notin Finite => call.ret[i] = PosInf
C6_Witness ==
    /\ chain = <<"transform_params">>
    /\ Size(call.arg) = 3
    /\ call.arg[0] < 0 /\ call.arg[1] = 0 /\ call.arg[2] > 0
    /\ call.ret[0] = One /\ call.ret[1] = 0 /\ call.ret[2] = 4 * One

\* C7, as stated: transform_params is a bijection between the unconstrained
\* vectors and the non-negative vectors: no two unconstrained vectors have the
\* same image and every non-negative vector is an image.
C7_TransformBijection ==
    (chain = <<"transform_params">> /\ AllFinite(given))
        => /\ \A u \in Vectors : transform_params(u) = call.ret => u = given
           /\ NonNegative(given) => \E u \in Vectors : transform_params(u) = given
\* C7, amended: transform_params maps u and -u to the same non-negative
\* vector; two vectors whose squares neither overflow nor underflow have the
\* same image exactly when their components have the same magnitudes, and
\* that image is also the image of its own untransform_params.
C7_TransformUpToSign ==
    (chain = <<"transform_params">> /\ AllFinite(given))
        => /\ \A i \in DOMAIN call.ret : Ge(call.ret[i], 0)
           /\ transform_params(Negated(given)) = call.ret
           /\ (\A i \in DOMAIN given : SquareInRange(given[i]))
                => /\ transform_params(untransform_params(call.ret)) = call.ret
                   /\ \A u \in Vectors :
                        (\A i \in DOMAIN u : SquareInRange(u[i]))
                          => (transform_params(u) = call.ret
                                <=> Magnitude(u) = Magnitude(given))
C7_Witness ==
    /\ chain = <<"transform_params">>
    /\ Size(given) = 3
    /\ \A i \in DOMAIN given : SquareInRange(given[i]) /\ given[i] < 0
    /\ given[0] # given[1]
    /\ transform_params(Negated(given)) = call.ret

\* C8: update(p) right after update(p) leaves design, transition, selection,
\* obs_cov and state_cov as the first call left them.
C8_UpdateIdempotent ==
    [][(call.op = "update" /\ call'.op = "update" /\ call'.arg = call.arg)
          => UNCHANGED <<structural, covariances>>]_vars
C8_Witness ==
    /\ repeated
    /\ call.op = "update"
    /\ call.arg = Vec3(2 * One, 0 - One, 2 * One)
    /\ obs_cov[0][0] = 2 * One

\* ---------------------------------------------------------- start_params
RECURSIVE IntSumTo(_, _)
IntSumTo(a, k) == IF k < 0 THEN 0 ELSE IntSumTo(a, k - 1) + a[k]
\* The exact sum of the items, in units.
IntSum(a) == IntSumTo(a, Size(a) - 1)
\* Size(a) times the exact sum of squared deviations from the exact mean, in
\* units squared: n * sum(a[i]^2) - sum(a)^2.
ScaledSSD(a) ==
    Size(a) * IntSum([i \in DOMAIN a |-> a[i] * a[i]]) - IntSum(a) * IntSum(a)
\* No step of np.std(a) rounds.
ExactStd(a) ==
    LET arrmean == np_mean(a)
        x == Deviations(a)
        xx == SquaredDeviations(a)
        var == np_var(a, 0)
    IN  /\ np_sum(a) = IntSum(a)
        /\ arrmean * Size(a) = IntSum(a)
        /\ \A i \in DOMAIN a : x[i] = a[i] - arrmean /\ xx[i] * One = x[i] * x[i]
        /\ np_sum(xx) = IntSum(xx)
        /\ var * Size(a) = IntSum(xx)
        /\ RootOf[var] * RootOf[var] = var * One
\* The series of the model whose standard deviation is computed exactly.
ExactSeries == { s \in Series : ExactStd(s) }

\* C9: start_params is a vector of length 3 whose components all equal
\* np.std of the observed series, whatever updates the model has had.
C9_StartParamsStd ==
    call.op = "start_params" =>
        /\ DOMAIN call.ret = 0..2
        /\ call.ret[0] = call.ret[1] /\ call.ret[1] = call.ret[2]
        /\ call.ret[0] = RootOf[np_var(endog, 0)]
C9_Witness ==
    /\ call.op = "start_params"
    /\ call.ret[0] > 0
    /\ obs_cov[0][0] = 2 * One
    /\ state_cov[1][1] = 0 - One

\* C10, as stated: for n >= 2 observations the square of a component times
\* (n - 1) is the sum of squared deviations from the mean (both sides times n,
\* in units squared).
C10_SampleStandardDeviation ==
    (call.op = "start_params" /\ Size(endog) >= 2)
        => call.ret[0] * call.ret[0] * (Size(endog) - 1) * Size(endog)
             = ScaledSSD(endog)
\* C10, amended: the square of a component times n is the sum of squared
\* deviations from the mean whenever no step of the computation rounds.
C10_PopulationStandardDeviation ==
    (call.op = "start_params" /\ endog \in ExactSeries)
        => call.ret[0] * call.ret[0] * Size(endog) * Size(endog)
             = ScaledSSD(endog)
C10_Witness ==
    /\ call.op = "start_params"
    /\ Size(endog) >= 2
    /\ endog \in ExactSeries
    /\ call.ret[0] > 0
    /\ call.ret[0] * call.ret[0] * (Size(endog) - 1) * Size(endog) # ScaledSSD(endog)

\* ------------------------------------------------ the three parameters
\* The cells update writes, in the order of the parameter vector.
VarianceCells == Vec3(obs_cov[0][0], state_cov[0][0], state_cov[1][1])
\* Position (from 0) of a label in param_names.
Position(label) ==
    (CHOOSE i \in 1..Len(param_names) : param_names[i] = label) - 1
HasZero(v) == \E i \in DOMAIN v : v[i] = 0
HasNegative(v) == \E i \in DOMAIN v : v[i] < 0

\* C11, as stated: no component of start_params is exactly zero, whatever
\* the observed series.
C11_StartParamsNonZero ==
    call.op = "start_params" => \A i \in DOMAIN call.ret : call.ret[i] # 0

\* C12: param_names is ('sigma2.measurement', 'sigma2.level', 'sigma2.trend'),
\* as long as start_params, and after update(params) the cell obs_cov[0,0]
\* holds the parameter at the position of 'sigma2.measurement', the cell of
\* state 0 (the state the design row (1, 0) selects) the one at the position
\* of 'sigma2.level' and the cell of state 1 the one at the position of
\* 'sigma2.trend'.
C12_ParamNamesMatchCells ==
    /\ call.op = "param_names" =>
         /\ call.ret = <<"sigma2.measurement", "sigma2.level", "sigma2.trend">>
         /\ Len(call.ret) = Size(start_params)
    /\ call.op = "update" =>
         /\ design[0][0] = One /\ design[0][1] = 0
         /\ obs_cov[0][0] = call.arg[Position("sigma2.measurement")]
         /\ state_cov[0][0] = call.arg[Position("sigma2.level")]
         /\ state_cov[1][1] = call.arg[Position("sigma2.trend")]
C12_Witness ==
    /\ call.op = "update"
    /\ call.arg = Vec3(0, 2 * One, 0 - One)
    /\ Position("sigma2.level") = 1
    /\ state_cov[0][0] = 2 * One
    /\ state_cov[1][1] = 0 - One

\* C13: in every state, after construction and after every update, k_states
\* and k_posdef are 2, the initialization is approximate_diffuse (not
\* stationary) and loglikelihood_burn equals k_states.
C13_ConstructionSettings ==
    /\ k_states = 2
    /\ k_posdef = 2
    /\ initialization = "approximate_diffuse"
    /\ initialization # "stationary"
    /\ loglikelihood_burn = k_states
C13_Witness ==
    /\ call.op = "update"
    /\ replaced
    /\ obs_cov[0][0] = 0 - One
    /\ loglikelihood_burn = 2

\* C14: every proposal u with a zero component can be made in every state
\* (update(transform_params(u)) is not refused), and after it the cell of each
\* zero component holds 0.
C14_ZeroVarianceAccepted ==
    /\ \A u \in ParamVectors : HasZero(u) => ENABLED Propose(u)
    /\ (call.op = "propose" /\ HasZero(call.arg)) =>
         \A i \in DOMAIN call.arg : call.arg[i] = 0 => VarianceCells[i] = 0
C14_Witness ==
    /\ call.op = "propose"
    /\ call.arg = Vec3(0, 0 - One, 0)
    /\ VarianceCells = Vec3(0, One, 0)

\* C15: update(params) can be called with every vector, also one with a
\* negative component, and writes each negative component into its cell
\* unchanged; after a proposal, which goes through transform_params, no cell
\* is negative.
C15_UpdateWritesUnvalidated ==
    /\ \A p \in ParamVectors : HasNegative(p) => ENABLED Update(p)
    /\ call.op = "update" =>
         \A i \in DOMAIN call.arg :
             call.arg[i] < 0 => (VarianceCells[i] = call.arg[i] /\ VarianceCells[i] < 0)
    /\ call.op = "propose" => \A i \in DOMAIN VarianceCells : Ge(VarianceCells[i], 0)
C15_Witness ==
    /\ call.op = "update"
    /\ call.arg = Vec3(0 - One, 0 - One, 0 - One)
    /\ VarianceCells = Vec3(0 - One, 0 - One, 0 - One)

\* C17: construction leaves design, transition and selection set and every
\* cell of obs_cov and state_cov zero; no later step constructs again or
\* changes design, transition or selection; and a step that changes obs_cov
\* or state_cov is an update (direct or of a proposal) that leaves the
\* off-diagonal cells of state_cov as they were.
C17_Lifecycle ==
    /\ call.op = "__init__"
    /\ C3_StructuralInvariant
    /\ obs_cov = Zeros(1, 1)
    /\ state_cov = Zeros(2, 2)
    /\ [][/\ call'.op # "__init__"
          /\ UNCHANGED structural
          /\ covariances' # covariances =>
               /\ call'.op \in {"update", "propose"}
               /\ state_cov'[0][1] = state_cov[0][1]
               /\ state_cov'[1][0] = state_cov[1][0]]_vars
C17_Witness ==
    /\ call.op = "update"
    /\ replaced
    /\ VarianceCells = Vec3(2 * One, 2 * One, 2 * One)

\* The matrices of a freshly constructed model after the one call update(p).
FreshThenUpdate(p) ==
    [design |-> Mat1x2(One, 0),
     transition |-> Mat2x2(One, One, 0, One),
     selection |-> eye(2),
     obs_cov |-> SetCells(Zeros(1, 1), Vec1(0), Vec1(0), Vec1(p[0])),
     state_cov |-> SetCells(Zeros(2, 2), diag_indices(2)[1], diag_indices(2)[2],
                            Tail1(p))]

\* C18: after update(p), whatever updates came before, the matrices are those
\* of a freshly constructed model after the single call update(p).
C18_LastUpdateOnly ==
    call.op = "update" =>
        [design |-> design, transition |-> transition, selection |-> selection,
         obs_cov |-> obs_cov, state_cov |-> state_cov] = FreshThenUpdate(call.arg)
C18_Witness ==
    /\ call.op = "update"
    /\ replaced
    /\ call.arg = Vec3(0, 0, 0)
    /\ VarianceCells = Vec3(0, 0, 0)

\* ------------------------------------------- simulate_seasonal_term
\* C19: the call returns periodicity * total_cycles samples after 100 times as
\* many time steps, the samples being those of the last steps in their order
\* (sample i is that of step 99 * duration + i); while the loop runs, the
\* samples of the steps still to come are unwritten.
C19_ReturnsLastDuration ==
    /\ pc = "returned" =>
         /\ Size(wanted_series) * One = periodicity * total_cycles
         /\ t = 100 * Size(wanted_series)
         /\ Size(series) = 100 * Size(wanted_series)
         /\ \A i \in 0..(Size(wanted_series) - 1) :
                wanted_series[i] = series[99 * Size(wanted_series) + i]
    /\ pc = "loop" => \A k \in t..(Size(series) - 1) : series[k] = 0
C19_Witness ==
    /\ pc = "returned"
    /\ periodicity = 2
    /\ Size(wanted_series) = 3
    /\ wanted_series[0] # series[0]
    /\ wanted_series[1] # wanted_series[0]
    /\ wanted_series[2] = series[299]

\* The values np.random.randn can return.
RandnValues == { random_state[k] : k \in DOMAIN random_state }
\* lambda = 2 pi / periodicity
Lambda == fdivcount(fmul(2 * One, np_pi), periodicity)

\* C20: in every time step and for every harmonic j, the new gamma_j is
\* gamma_j cos(j lambda) + gamma*_j sin(j lambda) + noise and the new gamma*_j
\* is -gamma_j sin(j lambda) + gamma*_j cos(j lambda) + noise, both from the
\* values of harmonic j before the step, and the sample of the step is the sum
\* of the new gamma_j.
C20_HarmonicRecursion ==
    [][(pc = "loop" /\ t' = t + 1) =>
          /\ DOMAIN gamma_jt' = 0..(harmonics - 1)
          /\ DOMAIN gamma_star_jt' = 0..(harmonics - 1)
          /\ \A j \in 1..harmonics :
               LET c == np_cos(fmul(Lambda, j * One))
                   sn == np_sin(fmul(Lambda, j * One))
                   g == gamma_jt[j - 1]
                   gs == gamma_star_jt[j - 1]
               IN  /\ \E e \in RandnValues :
                        gamma_jt'[j - 1] =
                            fadd(fadd(fmul(g, c), fmul(gs, sn)), fmul(noise_std, e))
                   /\ \E e \in RandnValues :
                        gamma_star_jt'[j - 1] =
                            fadd(fadd(fmul(fneg(g), sn), fmul(gs, c)),
                                 fmul(noise_std, e))
          /\ series'[t] = np_sum(gamma_jt')]_vars
C20_Witness ==
    /\ pc = "loop"
    /\ t > 1
    /\ harmonics = 2
    /\ gamma_jt[0] # gamma_jt[1]
    /\ gamma_jt[0] # gamma_star_jt[0]
    /\ series[t - 1] = np_sum(gamma_jt)
    /\ series[t - 1] # np_sum(gamma_star_jt)

\* periodicity * total_cycles, the product of an int and a float.
Product == fmul(periodicity * One, total_cycles)
IntegerValued(x) == x \in Finite /\ x % One = 0

\* C21: a call whose periodicity * total_cycles is not integer-valued ends in
\* AssertionError with no random number drawn and no series made; a call that
\* gets past the assertion has an integer-valued product, total_cycles being a
\* float throughout.
C21_NonIntegralDurationRejected ==
    /\ pc = "AssertionError" =>
         /\ ~ IntegerValued(Product)
         /\ (periodicity * total_cycles) % One # 0
         /\ draws = 0
         /\ series = Empty /\ gamma_jt = Empty /\ gamma_star_jt = Empty
         /\ t = 0
    /\ pc \in {"loop", "returned"} =>
         /\ IntegerValued(Product)
         /\ duration * One = periodicity * total_cycles
C21_Witness ==
    /\ pc = "AssertionError"
    /\ periodicity = 1
    /\ total_cycles = One + One \div 2
    /\ harmonics_arg = <<1>>
    /\ draws = 0

\* C22, as stated: past the assertion, the number of harmonics simulated is
\* the harmonics argument whenever one is supplied, 0 included, and
\* floor(periodicity / 2) when it is None.
C22_HarmonicsArgumentHonoured ==
    pc \in {"loop", "returned"} =>
        /\ Size(gamma_jt) = harmonics /\ Size(gamma_star_jt) = harmonics
        /\ harmonics_arg # None => harmonics = harmonics_arg[1]
        /\ harmonics_arg = None => harmonics = periodicity \div 2

\* ------------------------------------------------------------- ewma
Max(a, b) == IF a > b THEN a ELSE b

\* C23, as stated: for every series and every n_window >= 0 the call returns a
\* Series of max(nobs - 2 n_window, 0) values, as many as the labels of
\* series.iloc[n_window:-n_window], value j labelled with the label of
\* observation n_window + j.
C23_OneValuePerCentre ==
    ewma_pc \notin {"idle", "called", "loop"} =>
        /\ ewma_pc = "returned"
        /\ Len(ma) = Max(Size(ewma_series.values) - 2 * n_window, 0)
        /\ Len(ma) = Size(iloc(ewma_series.index, n_window, 0 - n_window))
        /\ Size(ewma_result.values) = Len(ma)
        /\ DOMAIN ewma_result.index = DOMAIN ewma_result.values
        /\ \A j \in DOMAIN ewma_result.index :
               ewma_result.index[j] = ewma_series.index[n_window + j]

\* C24: every average computed, the j-th for the centre t = n_window + j, is
\* (1 - beta) / (1 + beta) times the sum over d = -n_window..n_window of
\* beta^|d| * series[t + d], the weight of the centre being 1 and the weights
\* at distance d on both sides being beta^d.
C24_SymmetricWeightedAverage ==
    ewma_pc \in {"loop", "returned", "ValueError"} =>
        /\ DOMAIN weights = 0..(2 * n_window)
        /\ weights[n_window] = One
        /\ \A d \in 1..n_window :
               /\ weights[n_window - d] = weights[n_window + d]
               /\ weights[n_window + d] = fpow(beta, d)
        /\ \A j \in 0..(Len(ma) - 1) :
               ma[j + 1] =
                   fmul(fdiv(fsub(One, beta), fadd(One, beta)),
                        np_sum([i \in 0..(2 * n_window) |->
                                   fmul(fpow(beta, Abs(i - n_window)),
                                        ewma_series.values[j + i])]))
C24_Witness ==
    /\ ewma_pc = "returned"
    /\ n_window = 2
    /\ Size(ewma_series.values) = 2 * n_window + 1
    /\ Size(ewma_result.values) = 1
    /\ ewma_series.values[0] # ewma_series.values[4]
    /\ ewma_series.values[1] # ewma_series.values[3]
    /\ ewma_result.values[0] # 0
    /\ ewma_result.index[0] = ewma_series.index[2]

\* ------------------------------------------- ARMA(p,q) model selection
Cells == (0..(Orders - 1)) \X (0..(Orders - 1))
\* Table b is table a but for the cell c.
SameBut(a, b, c) == \A d \in Cells \ {c} : b[d[1]][d[2]] = a[d[1]][d[2]]

\* C25: a try block whose fit raises sets its cell [p,q] to nan and changes no
\* other cell of either table; after the block of the full data comes the
\* block of the missing data for the same (p,q), whether the first fit raised
\* or not; and when the loop is over, every cell but [0,0] holds nan if its
\* fit raised and an AIC value if not.
C25_FailedFitSetsNaN ==
    /\ [][/\ (stage = "full" /\ stage' # "full") =>
               /\ stage' = "miss" /\ order_p' = order_p /\ order_q' = order_q
               /\ aic_miss' = aic_miss
               /\ SameBut(aic_full, aic_full', <<order_p, order_q>>)
               /\ <<"dta_full", order_p, order_q>> \in failing =>
                      aic_full'[order_p][order_q] = NaN
          /\ stage = "miss" =>
               /\ aic_full' = aic_full
               /\ SameBut(aic_miss, aic_miss', <<order_p, order_q>>)
               /\ <<"dta_miss", order_p, order_q>> \in failing =>
                      aic_miss'[order_p][order_q] = NaN]_vars
    /\ [](stage = "done" =>
            \A c \in Cells \ {<<0, 0>>} :
                /\ aic_full[c[1]][c[2]] = NaN <=> <<"dta_full", c[1], c[2]>> \in failing
                /\ aic_miss[c[1]][c[2]] = NaN <=> <<"dta_miss", c[1], c[2]>> \in failing
                /\ aic_full[c[1]][c[2]] # 0 /\ aic_miss[c[1]][c[2]] # 0)
C25_Witness ==
    /\ stage = "done"
    /\ <<"dta_full", 4, 2>> \in failing
    /\ <<"dta_miss", 4, 2>> \notin failing
    /\ <<"dta_full", 0, 1>> \in failing
    /\ <<"dta_miss", 0, 1>> \in failing
    /\ aic_full[4][2] = NaN /\ aic_miss[4][2] = 2 * One
    /\ aic_full[0][1] = NaN /\ aic_miss[0][1] = NaN
    /\ aic_full[4][3] = One

\* Position of (a, b) in row-major order.
RowMajor(c) == c[1] * Orders + c[2]

====
